---- MODULE Spec2Model ----
(***************************************************************************)
(* Model of generate_knn_dataset (generatePredicatesOptional.py).          *)
(*                                                                         *)
(* One invocation is a sequential process; pc is the position in the       *)
(* function body, `error' the uncaught exception (if any) that ended it.   *)
(* Python indices are 0-based values; they are stored in 1-based TLA+      *)
(* sequences, so element j of a Python array a is a[j + 1] here.           *)
(***************************************************************************)
EXTENDS Integers, Sequences, FiniteSets, TLC

\* ---------------------------------------------------------------- bounds
\* n ranges over BlockSize * q + r, q \in 0..MaxBlocks, r \in Remainders
MaxBlocks == 1
\* p \in 1..MaxP, x \in 0..MaxX
MaxP == 2
MaxX == 2
\* the random stream is one of MaxSeed + 1 sample streams
MaxSeed == 1
\* float32 values in [0,1) are quantised to v / Grid, v \in 0..Grid-1
Grid == 4

\* ------------------------------------------------------ program constants
BlockSize == 100
TopK == 100
SentinelLen == 100
Sentinel == -1
MaxIds == 5

Remainders == {0, 1, BlockSize - 1}
NValues == {BlockSize * q + r : q \in 0..MaxBlocks, r \in Remainders}

VARIABLES
  pc, error,
  n, p, x, use_predicates,
  train_data, test_data,
  train_ids, test_ids,
  i, mask, global_indices, knn_indices, neighbors_list,
  h5f_open, opens, disk, printed

vars == <<pc, error, n, p, x, use_predicates, train_data, test_data,
          train_ids, test_ids, i, mask, global_indices, knn_indices,
          neighbors_list, h5f_open, opens, disk, printed>>

inputs == <<n, p, x, use_predicates>>
data == <<train_data, test_data>>
groups == <<train_ids, test_ids>>
knn == <<i, mask, global_indices, knn_indices, neighbors_list>>
output == <<h5f_open, opens, disk, printed>>

\* ------------------------------------------------------------- helpers
Range(s) == {s[k] : k \in 1..Len(s)}

SetMin(S) == CHOOSE m \in S : \A v \in S : m <= v

Reverse(s) == [k \in 1..Len(s) |-> s[Len(s) + 1 - k]]

\* ------------------------------------------------------- numpy / torch
\* np.arange(lo, hi): lo, lo+1, ..., hi-1 (empty when hi <= lo)
arange(lo, hi) == [k \in 1..(IF hi > lo THEN hi - lo ELSE 0) |-> lo + k - 1]

\* torch.arange(n)
torch_arange_from1(m) == arange(1, m + 1)
torch_arange(m) == arange(0, m)

\* np.repeat(a, r): every element r times, in order
repeat(a, r) == [k \in 1..(Len(a) * r) |-> a[((k - 1) \div r) + 1]]

\* np.full(len, v)
full(len, v) == [k \in 1..len |-> v]

\* the k-th value of sample stream `seed' of np.random.rand, quantised
Sample(seed, k) == (k * (2 * seed + 3) + (k \div 7) * (seed + 1)) % Grid

\* np.random.rand(rows, cols) drawn from the stream starting at offset
rand(seed, offset, rows, cols) ==
  [r \in 1..rows |-> [c \in 1..cols |-> Sample(seed, offset + (r - 1) * cols + c)]]

\* np.random.choice(a, size, replace=False) raises ValueError when the
\* sample is larger than the population (or the population is empty)
choice_raises(a, size) == size > Len(a)

\* its outcomes otherwise: the arrangements of `size' distinct elements of a
choice(a, size) ==
  {s \in [1..size -> Range(a)] : \A k1, k2 \in 1..size : k1 # k2 => s[k1] # s[k2]}

\* np.isin(a, members): elementwise membership
isin(a, members) == [k \in 1..Len(a) |-> a[k] \in Range(members)]

\* torch.where(mask)[0]: the (0-based) positions where mask is true
where(m) == SelectSeq(arange(0, Len(m)), LAMBDA j : m[j + 1])

\* train_tensor[mask] raises IndexError unless the mask covers dimension 0
mask_raises(tensor, m) == Len(m) # Len(tensor)

\* squared Euclidean distance; torch.cdist returns its square root, which
\* orders the train vectors identically
RECURSIVE SumSq(_, _, _)
SumSq(u, v, d) == IF d = 0 THEN 0
                  ELSE (u[d] - v[d]) * (u[d] - v[d]) + SumSq(u, v, d - 1)

cdist(query, rows) == [k \in 1..Len(rows) |-> SumSq(query, rows[k], Len(query))]

\* positions of `order' sorted by ascending (descending) value, positions
\* of equal value keeping the order they have in `order'
RECURSIVE SortedBy(_, _, _, _)
SortedBy(values, order, vals, largest) ==
  IF vals = {} THEN <<>>
  ELSE LET d == IF largest THEN -SetMin({-v : v \in vals}) ELSE SetMin(vals)
       IN SelectSeq(order, LAMBDA j : values[j + 1] = d)
            \o SortedBy(values, order, vals \ {d}, largest)

\* the order in which equal values come out of torch.topk is not defined:
\* "low" yields the lower position first, "high" the higher one
Ties == {"low", "high"}

\* torch.topk(values, k) raises RuntimeError when k exceeds the size
topk_clamps(size, k) == FALSE
topk_raises(size, k) == k > size

\* torch.topk(values, k, largest=False).indices
topk_largest(values, k, tie) ==
  LET order == IF tie = "low" THEN arange(0, Len(values))
               ELSE Reverse(arange(0, Len(values)))
      sorted == SortedBy(values, order, Range(values), TRUE)
  IN SubSeq(sorted, 1, IF k < Len(values) THEN k ELSE Len(values))
topk(values, k, tie) ==
  LET order == IF tie = "low" THEN arange(0, Len(values))
               ELSE Reverse(arange(0, Len(values)))
      sorted == SortedBy(values, order, Range(values), FALSE)
  IN SubSeq(sorted, 1, IF k < Len(values) THEN k ELSE Len(values))

\* global_indices[knn_indices]
index(a, positions) == [k \in 1..Len(positions) |-> a[positions[k] + 1]]

\* --------------------------------------------------------- output file
EmptyContainer == [name \in {} |-> <<>>]
Absent == [exists |-> FALSE, datasets |-> EmptyContainer]
Stale == [exists |-> TRUE, datasets |-> ("stale" :> <<0>>)]

\* h5py.File(path, 'w'): create the file, truncating an existing one
truncate(d) == [exists |-> TRUE, datasets |-> EmptyContainer]

\* h5f.create_dataset(name, data=value)
create_dataset(d, name, value) ==
  [d EXCEPT !.datasets = (name :> value) @@ d.datasets]

\* np.array(neighbors_list, dtype=np.int32): the rows stacked into a matrix
\* (every index and the sentinel lie within the int32 range, so the dtype
\* conversion changes no value)
neighbors_array(rows) == [r \in 1..Len(rows) |-> [c \in 1..Len(rows[r]) |-> rows[r][c]]]

\* np.array(test_ids, dtype=object) is a 1-D array of arrays when the
\* entries differ in length and a 2-D array of scalars when they agree
same_length(ids) == Len(ids) > 0 /\ \A k \in 1..Len(ids) : Len(ids[k]) = Len(ids[1])

with_ids_always(d, flag, tr_ids, te_ids) ==
  create_dataset(IF flag THEN create_dataset(d, "train_ids", tr_ids) ELSE d,
                 "test_ids", te_ids)
with_ids(d, flag, tr_ids, te_ids) ==
  IF flag
  THEN create_dataset(create_dataset(d, "train_ids", tr_ids), "test_ids", te_ids)
  ELSE d

\* ------------------------------------------------------- stage order
StageAfter_PrintFirst(stage) ==
  CASE stage = "generate" -> "groups"
    [] stage = "groups" -> "knn"
    [] stage = "knn" -> "print"
    [] stage = "print" -> "write"
    [] stage = "write" -> "done"
StageAfter_WriteFirst(stage) ==
  CASE stage = "generate" -> "write"
    [] stage = "write" -> "groups"
    [] stage = "groups" -> "knn"
    [] stage = "knn" -> "print"
    [] stage = "print" -> "done"
StageAfter(stage) ==
  CASE stage = "generate" -> "groups"
    [] stage = "groups" -> "knn"
    [] stage = "knn" -> "write"
    [] stage = "write" -> "print"
    [] stage = "print" -> "done"

\* ------------------------------------------------------------------ Init
Init ==
  /\ pc = "generate"
  /\ error = "none"
  /\ n \in NValues
  /\ p \in 1..MaxP
  /\ x \in 0..MaxX
  /\ use_predicates \in BOOLEAN
  /\ train_data = <<>>
  /\ test_data = <<>>
  /\ train_ids = <<>>
  /\ test_ids = <<>>
  /\ i = 0
  /\ mask = <<>>
  /\ global_indices = <<>>
  /\ knn_indices = <<>>
  /\ neighbors_list = <<>>
  /\ h5f_open = FALSE
  /\ opens = 0
  /\ disk \in {Absent, Stale}
  /\ printed = FALSE

\* --------------------------------------------------------------- stage 1
Generate ==
  /\ pc = "generate"
  /\ \E seed \in 0..MaxSeed :
       /\ train_data' = rand(seed, 0, n, p)
       /\ test_data' = rand(seed, n * p, x, p)
  /\ pc' = StageAfter("generate")
  /\ UNCHANGED <<error, inputs, groups, knn, output>>

\* --------------------------------------------------------------- stage 2
AssignTrainIds ==
  /\ pc = "groups"
  /\ use_predicates
  /\ train_ids' = repeat(arange(1, n \div BlockSize + 1), BlockSize)
  /\ test_ids' = <<>>
  /\ pc' = "draw"
  /\ UNCHANGED <<error, inputs, data, knn, output>>

\* lines 17-19; None is written as the empty sequence (neither variable is
\* read again unless use_predicates holds)
NoPredicates ==
  /\ pc = "groups"
  /\ ~use_predicates
  /\ train_ids' = <<>>
  /\ test_ids' = <<>>
  /\ pc' = StageAfter("groups")
  /\ UNCHANGED <<error, inputs, data, knn, output>>

DrawIds ==
  /\ pc = "draw"
  /\ Len(test_ids) < x
  /\ \E num_ids \in 1..MaxIds :
       LET population == arange(1, n \div BlockSize + 1) IN
       /\ ~choice_raises(population, num_ids)
       /\ \E associated_ids \in choice(population, num_ids) :
            test_ids' = Append(test_ids, associated_ids)
  /\ UNCHANGED <<pc, error, inputs, data, train_ids, knn, output>>

DrawIdsRaises ==
  /\ pc = "draw"
  /\ Len(test_ids) < x
  /\ \E num_ids \in 1..MaxIds :
       choice_raises(arange(1, n \div BlockSize + 1), num_ids)
  /\ pc' = "failed"
  /\ error' = "ValueError"
  /\ UNCHANGED <<inputs, data, groups, knn, output>>

DrawDone ==
  /\ pc = "draw"
  /\ Len(test_ids) = x
  /\ pc' = StageAfter("groups")
  /\ UNCHANGED <<error, inputs, data, groups, knn, output>>

\* --------------------------------------------------------------- stage 3
\* one iteration with predicates: lines 28-31; the distance computation
\* and both appends sit in the else branch and are not reached
KnnFiltered ==
  /\ pc = "knn"
  /\ i < x
  /\ use_predicates
  /\ mask' = isin(train_ids, test_ids[i + 1])
  /\ IF mask_raises(train_data, mask')
     THEN /\ pc' = "failed"
          /\ error' = "IndexError"
          /\ UNCHANGED <<i, global_indices>>
     ELSE /\ global_indices' = where(mask')
          /\ i' = i + 1
          /\ UNCHANGED <<pc, error>>
  /\ UNCHANGED <<inputs, data, groups, knn_indices, neighbors_list, output>>

\* one iteration without predicates, non-empty train set: lines 33-43
KnnTopK ==
  /\ pc = "knn"
  /\ i < x
  /\ ~use_predicates
  /\ Len(train_data) > 0
  /\ global_indices' = torch_arange(n)
  /\ LET distances == cdist(test_data[i + 1], train_data) IN
     IF topk_raises(Len(distances), TopK)
     THEN /\ pc' = "failed"
          /\ error' = "RuntimeError"
          /\ UNCHANGED <<i, knn_indices, neighbors_list>>
     ELSE /\ \E tie \in Ties : knn_indices' = topk(distances, TopK, tie)
          /\ neighbors_list' = Append(neighbors_list, index(global_indices', knn_indices'))
          /\ i' = i + 1
          /\ UNCHANGED <<pc, error>>
  /\ UNCHANGED <<inputs, data, groups, mask, output>>

\* one iteration without predicates, empty train set: lines 33-36, 45
KnnEmpty ==
  /\ pc = "knn"
  /\ i < x
  /\ ~use_predicates
  /\ Len(train_data) = 0
  /\ global_indices' = torch_arange(n)
  /\ neighbors_list' = Append(neighbors_list, full(SentinelLen, Sentinel))
  /\ i' = i + 1
  /\ UNCHANGED <<pc, error, inputs, data, groups, mask, knn_indices, output>>

KnnDone ==
  /\ pc = "knn"
  /\ i = x
  /\ pc' = StageAfter("knn")
  /\ UNCHANGED <<error, inputs, data, groups, knn, output>>

\* --------------------------------------------------------------- stage 4
OpenFile ==
  /\ pc = "write"
  /\ h5f_open' = TRUE
  /\ opens' = opens + 1
  /\ disk' = truncate(disk)
  /\ pc' = "datasets"
  /\ UNCHANGED <<error, inputs, data, groups, knn, printed>>

\* lines 49-55
CreateDatasets ==
  /\ pc = "datasets"
  /\ disk' = with_ids(
               create_dataset(
                 create_dataset(
                   create_dataset(disk, "train", train_data),
                   "test", test_data),
                 "neighbors", neighbors_array(neighbors_list)),
               use_predicates, train_ids, test_ids)
  /\ pc' = "closing"
  /\ UNCHANGED <<error, inputs, data, groups, knn, h5f_open, opens, printed>>

\* lines 49-55 when the test_ids entries agree in length: h5py is handed a
\* 2-D object array of scalars for a variable-length dataset, and whether it
\* stores or rejects it is not decided by this source, so line 55 may raise
\* after the other datasets were created
CreateDatasetsRaises ==
  /\ pc = "datasets"
  /\ use_predicates
  /\ same_length(test_ids)
  /\ disk' = create_dataset(
               create_dataset(
                 create_dataset(
                   create_dataset(disk, "train", train_data),
                   "test", test_data),
                 "neighbors", neighbors_array(neighbors_list)),
               "train_ids", train_ids)
  /\ error' = "WriteError"
  /\ pc' = "closing"
  /\ UNCHANGED <<inputs, data, groups, knn, h5f_open, opens, printed>>

\* leaving the with block, normally or with the exception still propagating
CloseFile ==
  /\ pc = "closing"
  /\ h5f_open' = FALSE
  /\ pc' = IF error = "none" THEN StageAfter("write") ELSE "failed"
  /\ UNCHANGED <<error, inputs, data, groups, knn, opens, disk, printed>>

\* line 57
Report ==
  /\ pc = "print"
  /\ printed' = TRUE
  /\ pc' = StageAfter("print")
  /\ UNCHANGED <<error, inputs, data, groups, knn, h5f_open, opens, disk>>

Next ==
  \/ Generate
  \/ AssignTrainIds
  \/ NoPredicates
  \/ DrawIds
  \/ DrawIdsRaises
  \/ DrawDone
  \/ KnnFiltered
  \/ KnnTopK
  \/ KnnEmpty
  \/ KnnDone
  \/ OpenFile
  \/ CreateDatasets
  \/ CreateDatasetsRaises
  \/ CloseFile
  \/ Report

Spec == Init /\ [][Next]_vars

\* ----------------------------------------------------------- properties
SentinelRow == full(SentinelLen, Sentinel)

\* the train indices eligible for query q (1-based), as the spec defines them
EligibleIndices(q) ==
  IF use_predicates THEN where(isin(train_ids, test_ids[q])) ELSE arange(0, n)

\* the rows the selection yields for query q
RowsFor(q) ==
  LET eligible == EligibleIndices(q)
      distances == cdist(test_data[q], index(train_data, eligible))
  IN IF Len(eligible) = 0 THEN {SentinelRow}
     ELSE {index(eligible, topk(distances, TopK, tie)) : tie \in Ties}

StageErrors == {"ValueError", "IndexError", "RuntimeError"}

\* C1: a completed call, with or without predicates, leaves one row per
\* query in neighbors: x rows of 100 entries, row q being the row of query q
C1_OneRowPerQuery ==
  pc = "done" =>
    /\ Len(neighbors_list) = x
    /\ \A q \in 1..x :
         /\ Len(neighbors_list[q]) = SentinelLen
         /\ neighbors_list[q] \in RowsFor(q)

\* C2: with predicates, after a completed call every query has a row, and
\* the row either holds only indices whose train id is in the query's id
\* set, or the eligible set is empty and the row is the sentinel row
C2_PredicateRows ==
  (pc = "done" /\ use_predicates) =>
    \A q \in 1..x :
      /\ q <= Len(neighbors_list)
      /\ LET eligible == Range(EligibleIndices(q)) IN
         \/ \A j \in Range(neighbors_list[q]) : j \in eligible
         \/ eligible = {} /\ neighbors_list[q] = SentinelRow

\* C3: without predicates (n positive, as the generator's input contract
\* requires) every row holds 100 distinct indices of [0, n), in
\* non-decreasing distance to its query, and no train vector outside the
\* row is nearer than the farthest one in it
C3_TrueNearest ==
  (~use_predicates /\ n >= 1) =>
    \A q \in 1..Len(neighbors_list) :
      LET row == neighbors_list[q]
          d == cdist(test_data[q], train_data)
      IN /\ Len(row) = TopK
         /\ Range(row) \subseteq 0..(n - 1)
         /\ Cardinality(Range(row)) = TopK
         /\ \A k \in 1..(TopK - 1) : d[row[k] + 1] <= d[row[k + 1] + 1]
         /\ \A j \in (0..(n - 1)) \ Range(row) : d[j + 1] >= d[row[TopK] + 1]

C3_Witness ==
  /\ pc = "done"
  /\ ~use_predicates
  /\ n > TopK
  /\ x >= 1
  /\ Len(neighbors_list) = x
  /\ \E j \in 0..(n - 1) : j \notin Range(neighbors_list[1])

\* C4: with predicates and n positive, train_ids has length n and train
\* index j carries id floor(j / 100) + 1
C4_TrainIdsCoverN ==
  (use_predicates /\ n >= 1 /\ pc \notin {"generate", "groups"}) =>
    /\ Len(train_ids) = n
    /\ \A j \in 0..(n - 1) : train_ids[j + 1] = (j \div BlockSize) + 1

\* C5: with predicates and n positive, no draw of group ids fails, and every
\* test_ids entry holds 1 to 5 distinct ids of 1..ceil(n / 100)
C5_DrawSucceeds ==
  (use_predicates /\ n >= 1) =>
    /\ error # "ValueError"
    /\ \A q \in 1..Len(test_ids) :
         /\ Len(test_ids[q]) \in 1..MaxIds
         /\ Cardinality(Range(test_ids[q])) = Len(test_ids[q])
         /\ Range(test_ids[q]) \subseteq 1..((n + BlockSize - 1) \div BlockSize)

\* C6: after a completed call the file holds train (n x p), test (x x p)
\* and neighbors, and holds train_ids and test_ids exactly when predicates
\* are enabled
C6_DatasetsPresent ==
  pc = "done" =>
    /\ disk.exists
    /\ {"train", "test", "neighbors"} \subseteq DOMAIN disk.datasets
    /\ Len(disk.datasets["train"]) = n
    /\ \A r \in 1..n : Len(disk.datasets["train"][r]) = p
    /\ Len(disk.datasets["test"]) = x
    /\ \A r \in 1..x : Len(disk.datasets["test"][r]) = p
    /\ ("train_ids" \in DOMAIN disk.datasets) <=> use_predicates
    /\ ("test_ids" \in DOMAIN disk.datasets) <=> use_predicates

C6_Witness ==
  /\ pc = "done"
  /\ use_predicates
  /\ x >= 1
  /\ {"train_ids", "test_ids"} \subseteq DOMAIN disk.datasets
  /\ Len(disk.datasets["test_ids"]) = x

\* stages 1-3 have run to their end
StagesFinished ==
  /\ pc \notin {"generate", "groups", "draw", "knn"}
  /\ Len(train_data) = n
  /\ Len(test_data) = x
  /\ use_predicates => Len(test_ids) = x
  /\ i = x

DatasetsWritten == {"train", "test", "neighbors"} \subseteq DOMAIN disk.datasets

\* C7: the file is opened only once stages 1-3 have finished and at most
\* once, the datasets change only while it is open, and the message is
\* printed only after the datasets are written and the file is closed
C7_StagesInSequence ==
  /\ [](/\ opens <= 1
        /\ opens = 1 => StagesFinished
        /\ h5f_open => (opens = 1 /\ pc \in {"datasets", "closing"})
        /\ printed => (~h5f_open /\ opens = 1 /\ DatasetsWritten))
  /\ [][disk' # disk => h5f_open']_vars

C7_Witness ==
  /\ pc = "done"
  /\ printed
  /\ opens = 1
  /\ ~h5f_open
  /\ x >= 1

\* the selection step has been reached with 1 to 99 eligible vectors
SmallSelection ==
  /\ ~use_predicates
  /\ n \in 1..(TopK - 1)
  /\ Len(global_indices) = n

\* C8 as stated: on 1 to 99 eligible vectors the selection does not fail
\* and returns as many indices as there are eligible vectors
C8_ClampedSelection ==
  SmallSelection =>
    /\ error = "none"
    /\ Len(neighbors_list) >= 1
    /\ \A q \in 1..Len(neighbors_list) : Len(neighbors_list[q]) = n

\* C8 amended: on 1 to 99 eligible vectors the selection raises on the first
\* query, no row is produced and the call ends before the file is opened
C8_SmallSelectionRaises ==
  SmallSelection =>
    /\ pc = "failed"
    /\ error = "RuntimeError"
    /\ neighbors_list = <<>>
    /\ opens = 0
    /\ ~printed

C8_Witness ==
  /\ SmallSelection
  /\ n = TopK - 1
  /\ pc = "failed"

C10_FailureLeavesFile ==
  /\ []((pc = "failed" /\ error \in StageErrors) =>
          (opens = 0 /\ ~h5f_open /\ ~printed /\ disk \in {Absent, Stale}))
  /\ [][opens' = 0 => disk' = disk]_vars

C10_Witness ==
  /\ pc = "failed"
  /\ error = "IndexError"
  /\ disk = Stale

====
